---- MODULE Spec2Model ----
(***************************************************************************)
(* tmuxstar (src/src/main.rs): a status-bar segment printer.  One process  *)
(* run parses the command line, and either prints the time segment or      *)
(* queries git up to five times and prints the git segment.                *)
(*                                                                         *)
(* Text is a sequence of one-character strings.  An external git call is   *)
(* an outcome record [spawned, success, stdout]: whether the process could *)
(* be spawned, whether it exited with status 0, and what it wrote to       *)
(* standard output.  The repository's answers to the five queries are the  *)
(* variable git, fixed for the life of a behaviour (an unchanged           *)
(* repository); the program's own state is everything else.                *)
(***************************************************************************)
EXTENDS Naturals, Sequences, FiniteSets

VARIABLES
    cmd,          \* the subcommand chosen on the command line: "git" | "time"
    label_fg,     \* --label-fg
    icon,         \* --icon
    git,          \* the repository's answers: [chk, top, abbrev, describe, status]
    pc,           \* position of the process
    project,      \* print_git: Option<String> from repo_root_name
    h,            \* head_name: the local h (Option<String>)
    branch,       \* print_git: Option<String> from head_name
    state,        \* print_git: the &str from repo_state ("" before the call)
    c_icon,       \* print_git: the color from state_color_fg (<< >> before)
    stdout,       \* what the current process has written to standard output
    calls,        \* the external git calls the current process has issued
    run,          \* number of the current invocation
    prev_stdout   \* standard output of the previous invocation

vars == <<cmd, label_fg, icon, git, pc, project, h, branch, state, c_icon,
          stdout, calls, run, prev_stdout>>

(***************************************************************************)
(* Bounds                                                                  *)
(***************************************************************************)
\* invocations in succession (render ticks)
MaxRuns == 2
\* longest status output, in characters, of the status-classification runs
MaxStatusLen == 5

(***************************************************************************)
(* Text                                                                    *)
(***************************************************************************)
NL == "\n"
CR == "\r"

None == << >>
Some(s) == <<s>>
IsSome(o) == Len(o) = 1
Unwrap(o) == o[1]

\* char::is_whitespace, on the characters the model uses
IsWhitespace(c) == c \in {" ", NL, CR, "\t"}

RECURSIVE TrimStart(_)
TrimStart(s) ==
    IF s = << >> THEN << >>
    ELSE IF IsWhitespace(Head(s)) THEN TrimStart(Tail(s))
    ELSE s

RECURSIVE TrimEnd(_)
TrimEnd(s) ==
    IF s = << >> THEN << >>
    ELSE IF IsWhitespace(s[Len(s)]) THEN TrimEnd(SubSeq(s, 1, Len(s) - 1))
    ELSE s

\* str::trim
Trim(s) == TrimEnd(TrimStart(s))

\* the pieces of s between occurrences of sep (str::split)
RECURSIVE Split(_, _)
Split(s, sep) ==
    IF \A i \in 1..Len(s) : s[i] # sep THEN <<s>>
    ELSE LET k == CHOOSE i \in 1..Len(s) :
                      s[i] = sep /\ \A j \in 1..(i - 1) : s[j] # sep
         IN  <<SubSeq(s, 1, k - 1)>> \o Split(SubSeq(s, k + 1, Len(s)), sep)

\* str::lines: split at line feeds, no final empty line, one trailing
\* carriage return of a line removed
StripCR(l) ==
    IF l # << >> /\ l[Len(l)] = CR THEN SubSeq(l, 1, Len(l) - 1) ELSE l

lines(s) ==
    LET parts == Split(s, NL)
        kept  == IF parts[Len(parts)] = << >>
                 THEN SubSeq(parts, 1, Len(parts) - 1)
                 ELSE parts
    IN  [i \in 1..Len(kept) |-> StripCR(kept[i])]

\* Path::file_name: the last component if it is a normal one.  Components
\* drop empty pieces and "." pieces; a path ending in ".." has no file name.
RECURSIVE SelectSeq2(_, _)
SelectSeq2(s, drop) ==
    IF s = << >> THEN << >>
    ELSE IF Head(s) \in drop THEN SelectSeq2(Tail(s), drop)
    ELSE <<Head(s)>> \o SelectSeq2(Tail(s), drop)

file_name(p) ==
    LET comps == SelectSeq2(Split(p, "/"), {<< >>, <<".">>})
    IN  IF comps = << >> THEN None
        ELSE IF comps[Len(comps)] = <<".", ".">> THEN None
        ELSE Some(comps[Len(comps)])

(***************************************************************************)
(* RepoInspector                                                           *)
(***************************************************************************)
SpawnFailed == [spawned |-> FALSE, success |-> FALSE, stdout |-> << >>]
Exited(ok, out) == [spawned |-> TRUE, success |-> ok, stdout |-> out]

\* git_ok: None when git cannot be spawned, exits non-zero or prints only
\* whitespace; otherwise the trimmed output
git_ok(o) ==
    IF ~o.spawned THEN None
    ELSE IF ~o.success THEN None
    ELSE IF Trim(o.stdout) = << >> THEN None
    ELSE Some(Trim(o.stdout))

\* is_repo: the exit status of rev-parse --is-inside-working-tree
is_repo(o) == IF o.spawned THEN o.success ELSE FALSE

\* repo_root_name: file name of the toplevel directory
repo_root_name(o) ==
    IF IsSome(git_ok(o)) THEN file_name(Unwrap(git_ok(o))) ELSE None

HEAD == <<"H", "E", "A", "D">>

ConflictCodes ==
    { <<"U","U">>, <<"A","A">>, <<"D","D">>, <<"A","U">>, <<"U","D">>,
      <<"U","A">>, <<"D","U">> }
StagedChars == {"M", "R", "A", "D", "C"}
UnstagedChars == {"M", "R", "A", "D", "C", " ", "D"}

IsConflictLine(l) == Len(l) >= 2 /\ SubSeq(l, 1, 2) \in ConflictCodes
IsUntrackedLine(l) == Len(l) >= 2 /\ SubSeq(l, 1, 2) = <<"?", "?">>
IsStagedLine(l) == IF Len(l) >= 1 THEN l[1] \in StagedChars ELSE FALSE
IsUnstagedLine(l) == IF Len(l) >= 2 THEN l[2] \in UnstagedChars ELSE FALSE

\* a plausible slip: the staged test placed before the untracked test
repo_state_staged_first(o) ==
    IF ~o.spawned THEN "clean"
    ELSE LET ls == lines(o.stdout)
         IN  IF (\E i \in 1..Len(ls) : IsConflictLine(ls[i])) THEN "conflict"
             ELSE IF (\E i \in 1..Len(ls) : IsStagedLine(ls[i])) THEN "staged"
             ELSE IF (\E i \in 1..Len(ls) : IsUntrackedLine(ls[i])) THEN "untracked"
             ELSE IF (\E i \in 1..Len(ls) : IsUnstagedLine(ls[i])) THEN "unstaged"
             ELSE "clean"

\* repo_state: only a spawn failure short-cuts to "clean"; the exit status
\* is not looked at and the output is classified whatever it is
repo_state(o) ==
    IF ~o.spawned THEN "clean"
    ELSE LET ls == lines(o.stdout)
         IN  IF (\E i \in 1..Len(ls) : IsConflictLine(ls[i])) THEN "conflict"
             ELSE IF (\E i \in 1..Len(ls) : IsUntrackedLine(ls[i])) THEN "untracked"
             ELSE IF (\E i \in 1..Len(ls) : IsStagedLine(ls[i])) THEN "staged"
             ELSE IF (\E i \in 1..Len(ls) : IsUnstagedLine(ls[i])) THEN "unstaged"
             ELSE "clean"

(***************************************************************************)
(* SegmentFormatter                                                        *)
(***************************************************************************)
Red    == <<"#", "f", "f", "6", "b", "6", "b">>
Yellow == <<"#", "f", "1", "f", "a", "8", "c">>
Purple == <<"#", "b", "d", "9", "3", "f", "9">>
Green  == <<"#", "5", "0", "f", "a", "7", "b">>
White  == <<"w", "h", "i", "t", "e">>

\* a plausible slip: "unstaged" missing from the first arm
state_color_fg_no_unstaged(s) ==
    CASE s = "conflict"  -> Red
      [] s = "staged"    -> Yellow
      [] s = "untracked" -> Purple
      [] s = "clean"     -> Green
      [] OTHER           -> White

\* a plausible slip: the colors of staged and untracked exchanged
state_color_fg_swapped(s) ==
    CASE s \in {"conflict", "unstaged"} -> Red
      [] s = "staged"    -> Purple
      [] s = "untracked" -> Yellow
      [] s = "clean"     -> Green
      [] OTHER           -> White

state_color_fg(s) ==
    CASE s \in {"conflict", "unstaged"} -> Red
      [] s = "staged"    -> Yellow
      [] s = "untracked" -> Purple
      [] s = "clean"     -> Green
      [] OTHER           -> White

tmux_fg(color) == <<"#", "[", "f", "g", "=">> \o color \o <<"]">>

\* the format! of print_git
format_git(c, ic, fg, proj, br) ==
    tmux_fg(c) \o ic \o tmux_fg(fg) \o proj \o <<"(">> \o br \o <<")">>

\* the tail of head_name: Some(h) unless h is empty
head_name_ret(hv) == IF hv # << >> THEN Some(hv) ELSE None

(***************************************************************************)
(* Inputs                                                                  *)
(***************************************************************************)
LabelColors == { White, <<"r", "e", "d">> }
Icons == { << >>, <<"*">> }
\* chrono's rendering of the local time under the format: not computed here
TimeStrings == { <<"0", "9", ":", "0", "0">>, <<"0", "9", ":", "0", "1">> }

\* the argument of the check as is_repo spells it; git's own flag is
\* --is-inside-work-tree, and rev-parse prints an argument it does not
\* know back and exits 0 wherever it finds a repository
CheckFlag ==
    <<"-", "-", "i", "s", "-", "i", "n", "s", "i", "d", "e", "-",
      "w", "o", "r", "k", "i", "n", "g", "-", "t", "r", "e", "e">>

ChkOutcomes ==
    { SpawnFailed,
      Exited(FALSE, << >>),
      Exited(TRUE, <<"t", "r", "u", "e", NL>>),
      Exited(TRUE, <<"f", "a", "l", "s", "e", NL>>),
      Exited(TRUE, CheckFlag \o <<NL>>) }

TopOutcomes ==
    { SpawnFailed,
      Exited(FALSE, << >>),
      Exited(TRUE, <<NL>>),
      Exited(TRUE, <<"/", NL>>),
      Exited(TRUE, <<"/", "w", "/", ".", ".", NL>>),
      Exited(TRUE, <<"/", "w", "/", "p", NL>>) }

AbbrevOutcomes ==
    { SpawnFailed,
      Exited(FALSE, << >>),
      Exited(TRUE, <<NL>>),
      Exited(TRUE, HEAD \o <<NL>>),
      Exited(TRUE, <<"m", NL>>) }

DescribeOutcomes ==
    { SpawnFailed,
      Exited(FALSE, << >>),
      Exited(TRUE, <<NL>>),
      Exited(TRUE, <<"t", "~", "1", NL>>) }

StatusSamples ==
    { << >>,
      <<"?", "?", " ", "f", NL>>,
      <<"M", " ", " ", "f", NL>>,
      <<" ", "M", " ", "f", NL>>,
      <<"U", "U", " ", "f", NL>>,
      <<"!", "!", " ", "f", NL>> }

StatusOutcomes ==
    { SpawnFailed, Exited(FALSE, << >>), Exited(FALSE, <<" ", "M", " ", "f", NL>>) }
    \cup { Exited(TRUE, s) : s \in StatusSamples }

\* every text of at most n characters over the alphabet
Texts(alphabet, n) == UNION { [1..k -> alphabet] : k \in 0..n }

\* U, A and D make the unmerged codes; M stands for itself and for R and C,
\* which repo_state tests in exactly the same places; "!" is in no test
StatusAlphabet == { "U", "A", "D", "M", "?", " ", "!", NL }

(***************************************************************************)
(* The process                                                             *)
(***************************************************************************)
TypeOK ==
    /\ cmd \in {"git", "time"}
    /\ pc \in {"exec", "is_repo", "repo_root_name", "head_name", "describe",
               "repo_state", "println", "print_time", "done"}
    /\ run \in 0..MaxRuns

Init ==
    /\ cmd \in {"git", "time"}
    /\ label_fg \in LabelColors
    /\ icon \in Icons
    /\ git \in [chk : ChkOutcomes, top : TopOutcomes, abbrev : AbbrevOutcomes,
                describe : DescribeOutcomes, status : StatusOutcomes]
    /\ cmd = "time" => git = [chk |-> SpawnFailed, top |-> SpawnFailed,
                              abbrev |-> SpawnFailed, describe |-> SpawnFailed,
                              status |-> SpawnFailed]
    /\ pc = "exec"
    /\ project = None
    /\ h = None
    /\ branch = None
    /\ state = ""
    /\ c_icon = << >>
    /\ stdout = << >>
    /\ calls = << >>
    /\ run = 0
    /\ prev_stdout = << >>

\* a plausible slip: output kept in a buffer that outlives the invocation
main_stale_output ==
    /\ pc = "exec"
    /\ run' = run + 1
    /\ pc' = IF cmd = "git" THEN "is_repo" ELSE "print_time"
    /\ project' = None
    /\ h' = None
    /\ branch' = None
    /\ state' = ""
    /\ c_icon' = << >>
    /\ calls' = << >>
    /\ UNCHANGED <<cmd, label_fg, icon, git, stdout, prev_stdout>>

\* main: a fresh process; nothing of an earlier invocation is read
main ==
    /\ pc = "exec"
    /\ run' = run + 1
    /\ pc' = IF cmd = "git" THEN "is_repo" ELSE "print_time"
    /\ project' = None
    /\ h' = None
    /\ branch' = None
    /\ state' = ""
    /\ c_icon' = << >>
    /\ stdout' = << >>
    /\ calls' = << >>
    /\ UNCHANGED <<cmd, label_fg, icon, git, prev_stdout>>

print_time ==
    /\ pc = "print_time"
    /\ \E s \in TimeStrings :
          stdout' = IF icon = << >> THEN stdout \o s ELSE stdout \o icon \o s
    /\ pc' = "done"
    /\ UNCHANGED <<cmd, label_fg, icon, git, project, h, branch, state, c_icon,
                   calls, run, prev_stdout>>

\* print_git, line 122
print_git_is_repo ==
    /\ pc = "is_repo"
    /\ calls' = Append(calls, "is-inside-working-tree")
    /\ pc' = IF is_repo(git.chk) THEN "repo_root_name" ELSE "done"
    /\ UNCHANGED <<cmd, label_fg, icon, git, project, h, branch, state, c_icon,
                   stdout, run, prev_stdout>>

\* print_git, line 125
print_git_repo_root_name ==
    /\ pc = "repo_root_name"
    /\ calls' = Append(calls, "show-toplevel")
    /\ project' = repo_root_name(git.top)
    /\ pc' = IF IsSome(project') THEN "head_name" ELSE "done"
    /\ UNCHANGED <<cmd, label_fg, icon, git, h, branch, state, c_icon, stdout,
                   run, prev_stdout>>

\* head_name, line 67 up to the test of line 68; when h is not "HEAD" also
\* lines 73-78 and the let-else of print_git
head_name_abbrev_ref ==
    /\ pc = "head_name"
    /\ calls' = Append(calls, "abbrev-ref")
    /\ h' = git_ok(git.abbrev)
    /\ IF IsSome(h')
       THEN IF Unwrap(h') = HEAD
            THEN /\ pc' = "describe"
                 /\ branch' = branch
            ELSE /\ branch' = head_name_ret(Unwrap(h'))
                 /\ pc' = IF IsSome(branch') THEN "repo_state" ELSE "done"
       ELSE /\ branch' = None
            /\ pc' = "done"
    /\ UNCHANGED <<cmd, label_fg, icon, git, project, state, c_icon, stdout,
                   run, prev_stdout>>

\* head_name, lines 69-78: h is overwritten only if the fallback answered
head_name_describe ==
    /\ pc = "describe"
    /\ calls' = Append(calls, "describe")
    /\ h' = IF IsSome(git_ok(git.describe)) THEN git_ok(git.describe) ELSE h
    /\ branch' = head_name_ret(Unwrap(h'))
    /\ pc' = IF IsSome(branch') THEN "repo_state" ELSE "done"
    /\ UNCHANGED <<cmd, label_fg, icon, git, project, state, c_icon, stdout,
                   run, prev_stdout>>

\* print_git, lines 128-129
print_git_repo_state ==
    /\ pc = "repo_state"
    /\ calls' = Append(calls, "status")
    /\ state' = repo_state(git.status)
    /\ c_icon' = state_color_fg(state')
    /\ pc' = "println"
    /\ UNCHANGED <<cmd, label_fg, icon, git, project, h, branch, stdout, run,
                   prev_stdout>>

\* print_git, lines 131-140
print_git_println ==
    /\ pc = "println"
    /\ stdout' = stdout
                 \o format_git(c_icon, icon, label_fg, Unwrap(project), Unwrap(branch))
                 \o <<NL>>
    /\ pc' = "done"
    /\ UNCHANGED <<cmd, label_fg, icon, git, project, h, branch, state, c_icon,
                   calls, run, prev_stdout>>

\* the process has exited; the status bar's next render tick runs it again
\* with the same command line against the unchanged repository
Reinvoke ==
    /\ pc = "done"
    /\ run < MaxRuns
    /\ prev_stdout' = stdout
    /\ pc' = "exec"
    /\ UNCHANGED <<cmd, label_fg, icon, git, project, h, branch, state, c_icon,
                   stdout, calls, run>>

Next ==
    \/ main
    \/ print_time
    \/ print_git_is_repo
    \/ print_git_repo_root_name
    \/ head_name_abbrev_ref
    \/ head_name_describe
    \/ print_git_repo_state
    \/ print_git_println
    \/ Reinvoke

Spec == Init /\ [][Next]_vars

(***************************************************************************)
(* The status classification on every short status output: the process is  *)
(* taken where print_git has resolved project and branch and is about to   *)
(* run the status query.                                                   *)
(***************************************************************************)
InitStatus ==
    /\ cmd = "git"
    /\ label_fg = White
    /\ icon = <<"*">>
    /\ \E ok \in BOOLEAN, s \in Texts(StatusAlphabet, MaxStatusLen) :
          git = [chk |-> Exited(TRUE, <<"t", "r", "u", "e", NL>>),
                 top |-> Exited(TRUE, <<"/", "w", "/", "p", NL>>),
                 abbrev |-> Exited(TRUE, <<"m", NL>>),
                 describe |-> SpawnFailed,
                 status |-> Exited(ok, s)]
    /\ pc = "repo_state"
    /\ project = Some(<<"p">>)
    /\ h = Some(<<"m">>)
    /\ branch = Some(<<"m">>)
    /\ state = ""
    /\ c_icon = << >>
    /\ stdout = << >>
    /\ calls = <<"is-inside-working-tree", "show-toplevel", "abbrev-ref">>
    /\ run = 1
    /\ prev_stdout = << >>

NextStatus ==
    \/ print_git_repo_state
    \/ print_git_println

SpecStatus == InitStatus /\ [][NextStatus]_vars

(***************************************************************************)
(* Properties                                                              *)
(***************************************************************************)
Issued(c) == \E i \in 1..Len(calls) : calls[i] = c
GitDone == cmd = "git" /\ pc = "done"
Printed == stdout # << >>
\* what a query returned: its trimmed output, if it ran, exited 0 and
\* printed something
Returned(o) == o.spawned /\ o.success /\ Trim(o.stdout) # << >>
Answer(o) == Trim(o.stdout)

\* the two-character code of a porcelain line
HasCode(l) == Len(l) >= 2
Code(l) == SubSeq(l, 1, 2)
StatusLines == lines(git.status.stdout)
C1_Conflict(l) ==
    HasCode(l) /\ Code(l) \in { <<"U","U">>, <<"A","A">>, <<"D","D">>,
                                <<"A","U">>, <<"U","D">>, <<"U","A">>,
                                <<"D","U">> }
C1_Untracked(l) == HasCode(l) /\ Code(l) = <<"?", "?">>
C1_Staged(l) == Len(l) >= 1 /\ l[1] \in {"M", "R", "A", "D", "C"}
C1_Unstaged(l) == Len(l) >= 2 /\ l[2] \in {"M", "R", "A", "D", "C", " "}
C1_Expected ==
    IF (\E i \in 1..Len(StatusLines) : C1_Conflict(StatusLines[i])) THEN "conflict"
    ELSE IF (\E i \in 1..Len(StatusLines) : C1_Untracked(StatusLines[i])) THEN "untracked"
    ELSE IF (\E i \in 1..Len(StatusLines) : C1_Staged(StatusLines[i])) THEN "staged"
    ELSE IF (\E i \in 1..Len(StatusLines) : C1_Unstaged(StatusLines[i])) THEN "unstaged"
    ELSE "clean"

\* C1: whatever the status query wrote, repo_state returns the first match
\* of conflict, untracked, staged, unstaged, clean, whichever other lines are
\* present and in whichever order
C1_Precedence ==
    (Issued("status") /\ git.status.spawned) => state = C1_Expected

\* C1 witness: an untracked line before an unmerged line: conflict wins
C1_Witness ==
    /\ pc = "println"
    /\ \E i, j \in 1..Len(StatusLines) :
          i < j /\ C1_Untracked(StatusLines[i]) /\ C1_Conflict(StatusLines[j])
    /\ state = "conflict"

\* C2: the branch name shown is never the literal HEAD: when the
\* abbreviated-ref query returns exactly HEAD the fallback query is issued,
\* its result is the branch name, and if it fails nothing is printed
C2_NeverHEAD ==
    GitDone =>
      /\ Printed => Unwrap(branch) # HEAD
      /\ (Issued("abbrev-ref") /\ Returned(git.abbrev) /\ Answer(git.abbrev) = HEAD)
           => /\ Issued("describe")
              /\ Returned(git.describe) => branch = Some(Answer(git.describe))
              /\ ~Returned(git.describe) => ~Printed

\* the check's answer says the path is inside a working tree
InsideWorkingTree ==
    Returned(git.chk) /\ Answer(git.chk) = <<"t", "r", "u", "e">>
OneLine ==
    /\ Len(stdout) >= 2
    /\ stdout[Len(stdout)] = NL
    /\ \A i \in 1..(Len(stdout) - 1) : stdout[i] # NL

\* C3: the git segment prints nothing when the path is not inside a working
\* tree or the toplevel name or the current ref is not resolved, and prints
\* exactly one complete line when all three succeeded
C3_SilentUnlessResolved ==
    GitDone =>
      /\ Printed <=> (InsideWorkingTree /\ IsSome(project) /\ IsSome(branch))
      /\ Printed => OneLine

C4_Color(s) ==
    CASE s = "conflict"  -> <<"#", "f", "f", "6", "b", "6", "b">>
      [] s = "unstaged"  -> <<"#", "f", "f", "6", "b", "6", "b">>
      [] s = "staged"    -> <<"#", "f", "1", "f", "a", "8", "c">>
      [] s = "untracked" -> <<"#", "b", "d", "9", "3", "f", "9">>
      [] s = "clean"     -> <<"#", "5", "0", "f", "a", "7", "b">>
\* p is the last component of path t: t ends in "/" p and p holds no "/"
C4_LastComponent(p, t) ==
    /\ p # << >>
    /\ \A i \in 1..Len(p) : p[i] # "/"
    /\ Len(t) > Len(p)
    /\ SubSeq(t, Len(t) - Len(p) + 1, Len(t)) = p
    /\ t[Len(t) - Len(p)] = "/"

\* C4: a printed git line is #[fg=C] icon #[fg=label_fg] project (branch)
\* with C the table's color of the computed state, icon and label_fg as
\* given, project the last component of the toplevel directory and branch
\* the resolved ref name
C4_LineFormat ==
    (GitDone /\ Printed) =>
      /\ stdout = <<"#", "[", "f", "g", "=">> \o C4_Color(state) \o <<"]">>
                  \o icon
                  \o <<"#", "[", "f", "g", "=">> \o label_fg \o <<"]">>
                  \o Unwrap(project) \o <<"(">> \o Unwrap(branch) \o <<")", NL>>
      /\ C4_LastComponent(Unwrap(project), Answer(git.top))
      /\ Unwrap(branch) \in {Answer(git.abbrev), Answer(git.describe)}

\* C4 witness: clean repository p on branch m, label white, icon *
C4_Witness ==
    /\ GitDone
    /\ state = "clean"
    /\ stdout = <<"#", "[", "f", "g", "=", "#", "5", "0", "f", "a", "7", "b", "]",
                  "*", "#", "[", "f", "g", "=", "w", "h", "i", "t", "e", "]",
                  "p", "(", "m", ")", NL>>

C6_AbsentOnlyIfBothFail ==
    (GitDone /\ Issued("abbrev-ref")) =>
      /\ branch = None <=> (~Returned(git.abbrev) /\ ~Returned(git.describe))
      /\ ~Returned(git.abbrev) =>
           /\ Issued("describe")
           /\ Returned(git.describe) => branch = Some(Answer(git.describe))

\* C7: a status query that could not be spawned or exited non-zero yields
\* clean, whatever it wrote
C7_FailedStatusIsClean ==
    (Issued("status") /\ (~git.status.spawned \/ ~git.status.success))
      => state = "clean"

CallOrder ==
    <<"is-inside-working-tree", "show-toplevel", "abbrev-ref", "describe", "status">>
Rank(c) == CHOOSE k \in 1..Len(CallOrder) : CallOrder[k] = c
StepSucceeded(c) ==
    CASE c = "is-inside-working-tree" -> git.chk.spawned /\ git.chk.success
      [] c = "show-toplevel" -> IsSome(project)
      [] c = "abbrev-ref"    -> Returned(git.abbrev)
      [] c = "describe"      -> Returned(git.describe)
      [] OTHER               -> TRUE

\* C8: the calls are issued in the fixed order, each at most once, the
\* fallback only after the abbreviated-ref query returned HEAD, a later call
\* only if every earlier step succeeded, no status query in a run that
\* prints nothing, and none at all by the time segment
C8_CallDiscipline ==
    /\ \A i, j \in 1..Len(calls) : i < j => Rank(calls[i]) < Rank(calls[j])
    /\ Issued("describe") => (Returned(git.abbrev) /\ Answer(git.abbrev) = HEAD)
    /\ \A i, j \in 1..Len(calls) : i < j => StepSucceeded(calls[i])
    /\ (GitDone /\ ~Printed) => ~Issued("status")
    /\ cmd = "time" => calls = << >>

\* is_repo has returned, and what it returned: print_git goes on only if true
IsRepoReturned == Issued("is-inside-working-tree")
IsRepoResult == pc = "repo_root_name" \/ Len(calls) >= 2

\* C9: is_repo is true exactly if git reports the path inside a working
\* tree: false on a spawn failure, a non-zero exit and the answer "false"
C9_TrueIffInside ==
    IsRepoReturned => (IsRepoResult <=> InsideWorkingTree)

\* C10: the state handed to state_color_fg is one of the five names, and the
\* color computed and printed is one of the four table colors, never white
C10_NoDefaultColor ==
    Issued("status") =>
      /\ state \in {"conflict", "untracked", "staged", "unstaged", "clean"}
      /\ c_icon \in { <<"#", "f", "f", "6", "b", "6", "b">>,
                      <<"#", "f", "1", "f", "a", "8", "c">>,
                      <<"#", "b", "d", "9", "3", "f", "9">>,
                      <<"#", "5", "0", "f", "a", "7", "b">> }
      /\ Printed => SubSeq(stdout, 6, 12) = c_icon

\* C10 witness: an unstaged change, printed in #ff6b6b
C10_Witness ==
    /\ GitDone
    /\ Printed
    /\ state = "unstaged"
    /\ SubSeq(stdout, 6, 12) = <<"#", "f", "f", "6", "b", "6", "b">>

====
